---------------------------- MODULE Spec2Model ----------------------------
(***************************************************************************)
(* Slab-ocean model of 020_run_slab_model.ipynb: upsample_data,            *)
(* filter_windstress (timestep check, coefficients, integrate, masks) and  *)
(* the sub-sampling / chunked store of ds_slab.                            *)
(*                                                                         *)
(* Numbers.  Floating-point values are carried as exact integers in scaled *)
(* units, with a separate not-a-number marker that propagates through the  *)
(* arithmetic as IEEE NaN does.  Velocities of a grid point are carried in *)
(* units of 1 / (|epsilon + i f|^2 rho H), a positive real number, so that *)
(* c_0 = -1 / (epsilon + i f) / rho / H is the Gaussian integer            *)
(* -(epsilon - i f).  f and epsilon are carried in units of 2*Omega/8 and  *)
(* the timestep in units of the inverse, so that f*dt and epsilon*dt are   *)
(* integers.  Arrays along "time" are functions on 0..n-1, as in the code. *)
(***************************************************************************)
EXTENDS Integers, Sequences, FiniteSets

(***************************************************************************)
(* Bounds of the model.                                                    *)
(***************************************************************************)
MaxLen == 4
\* the uniform timestep of the time axis, in the model's unit of time
Timestep == 1
MaxPoints == 3
MaxTimes == 4
MaxDiff == 4
MaxOrig == 4
MaxGap == 4

(***************************************************************************)
(* Real and complex values with NaN.                                       *)
(***************************************************************************)
NaN == [nan |-> TRUE, v |-> 0]
Real(x) == [nan |-> FALSE, v |-> x]
IsNaN(a) == a.nan

RAdd(a, b) == IF a.nan \/ b.nan THEN NaN ELSE Real(a.v + b.v)
RSub(a, b) == IF a.nan \/ b.nan THEN NaN ELSE Real(a.v - b.v)
RMul(a, b) == IF a.nan \/ b.nan THEN NaN ELSE Real(a.v * b.v)
RNeg(a) == IF a.nan THEN NaN ELSE Real(0 - a.v)

Complex(re, im) == [re |-> re, im |-> im]
CInt(x, y) == Complex(Real(x), Real(y))
CZero == CInt(0, 0)
CNaN == Complex(NaN, NaN)
CAdd(a, b) == Complex(RAdd(a.re, b.re), RAdd(a.im, b.im))
CNeg(a) == Complex(RNeg(a.re), RNeg(a.im))
CMul(a, b) ==
    Complex(RSub(RMul(a.re, b.re), RMul(a.im, b.im)),
            RAdd(RMul(a.re, b.im), RMul(a.im, b.re)))
\* numpy's isnan of a complex number: either part is NaN
CIsNull(a) == a.re.nan \/ a.im.nan
\* numpy's == of a complex number and 0: NaN compares unequal to everything
CEqZero(a) == ~a.re.nan /\ ~a.im.nan /\ a.re.v = 0 /\ a.im.v = 0

Abs(x) == IF x < 0 THEN 0 - x ELSE x

RECURSIVE Pow2(_)
Pow2(k) == IF k = 0 THEN 1 ELSE 2 * Pow2(k - 1)

RECURSIVE UlpExp(_, _)
\* exponent k of the float32 spacing 2^k at magnitude m (24-bit significand)
UlpExp(m, k) == IF m < Pow2(24 + k) THEN k ELSE UlpExp(m, k + 1)

\* astype("float32") of an integer value: round to nearest, ties to even
Float32Int(x) ==
    LET m == Abs(x)
        ulp == Pow2(UlpExp(m, 0))
        r == m % ulp
        lo == m - r
        up == (2 * r > ulp) \/ (2 * r = ulp /\ (lo \div ulp) % 2 = 1)
        mm == IF up THEN lo + ulp ELSE lo
    IN  IF x < 0 THEN 0 - mm ELSE mm

AsFloat32(a) == IF a.nan THEN NaN ELSE Real(Float32Int(a.v))
AsComplex64(a) == Complex(AsFloat32(a.re), AsFloat32(a.im))

RECURSIVE ISqrtBetween(_, _, _)
\* the r with r*r <= x < (r+1)*(r+1), searched in lo..hi-1 by bisection
ISqrtBetween(x, lo, hi) ==
    IF hi - lo <= 1 THEN lo
    ELSE LET mid == (lo + hi) \div 2
         IN  IF mid * mid <= x THEN ISqrtBetween(x, mid, hi)
             ELSE ISqrtBetween(x, lo, mid)
\* x ** 0.5, rounded down to the integer grid of the model; NaN ** 0.5 = NaN
RSqrt(a) ==
    IF a.nan THEN NaN
    ELSE Real(ISqrtBetween(a.v, 0, IF a.v < 46340 THEN a.v + 1 ELSE 46341))

(***************************************************************************)
(* filter_windstress: parameters and coefficients.                         *)
(***************************************************************************)
\* epsilon=1/5/24/3600 [1/s], in the model's unit of f
epsilon == 1
\* abs(lat) > 4.0 is kept, everything else is masked
EquatorBand == 4

\* round(8 * sin(a degrees)) for a in 0..90
SinEighths(a) ==
    IF a < 4 THEN 0 ELSE IF a < 11 THEN 1 ELSE IF a < 19 THEN 2
    ELSE IF a < 26 THEN 3 ELSE IF a < 35 THEN 4 ELSE IF a < 44 THEN 5
    ELSE IF a < 55 THEN 6 ELSE IF a < 70 THEN 7 ELSE 8

\* f = 2 * 7.2921e-5 * np.sin(np.deg2rad(lat)), in units of 2*Omega/8
Coriolis(latV) == IF latV < 0 THEN 0 - SinEighths(0 - latV) ELSE SinEighths(latV)

\* c_0 = - 1 / (epsilon + 1j * f) / rho / H, in units of 1/(|epsilon+if|^2 rho H)
Coef_c_0(f) == CInt(0 - epsilon, f)
\* a sign slip: c_2 = c_0
Coef_c_2_SameSign(c0) == c0
\* c_2 = - c_0
Coef_c_2(c0) == CNeg(c0)
\* d_1 = - 2j * f * dt
Coef_d_1(f, dtV) == CInt(0, 0 - 2 * f * dtV)
\* d_2 = 1 - 2 * epsilon * dt
Coef_d_2(dtV) == CInt(1 - 2 * epsilon * dtV, 0)

\* xr.broadcast(xr.DataArray(c), T)[0]: the scalar of the point at every time
Broadcast(c, n) == [k \in 0..(n - 1) |-> c]

\* T = taux.astype("float32") + 1j * tauy.astype("float32")
\* 1j * y = (0*y - 1*0) + (0*0 + 1*y)j, so a NaN in tauy makes both parts NaN
ComplexStress(tx, ty) ==
    LET x == AsFloat32(tx)
        y == AsFloat32(ty)
    IN  CAdd(Complex(x, Real(0)), CMul(CInt(0, 1), Complex(y, Real(0))))

\* the missing samples left in place
MaskMissing_Unmasked(c) == c
\* T = xr.where(~T.isnull(), T, 0)
MaskMissing(c) == IF ~CIsNull(c) THEN c ELSE CZero

\* the masked complex wind stress of one grid point
WindStress(tauxS, tauyS) ==
    [k \in DOMAIN tauxS |-> MaskMissing(ComplexStress(tauxS[k], tauyS[k]))]

(***************************************************************************)
(* integrate: the recursion along time of one grid point.                  *)
(***************************************************************************)
\* q = T.copy() in place of the zero array
ZerosLike_Copy(Tarr) == Tarr
\* q = np.zeros_like(T)
ZerosLike(Tarr) == [k \in DOMAIN Tarr |-> CZero]

\* the last term read at l-1 in place of l-2
IntegrateStepValue_ShiftedT(Tarr, d1, d2, c0, c2, qarr, i) ==
    AsComplex64(
        CAdd(CAdd(CAdd(CMul(d1[i - 1], qarr[i - 1]),
                       CMul(d2[i - 2], qarr[i - 2])),
                  CMul(c0[i], Tarr[i])),
             CMul(c2[i - 2], Tarr[i - 1])))

\* the right-hand side of q[l, ...] = ..., stored into the complex64 array q
IntegrateStepValue(Tarr, d1, d2, c0, c2, qarr, i) ==
    AsComplex64(
        CAdd(CAdd(CAdd(CMul(d1[i - 1], qarr[i - 1]),
                       CMul(d2[i - 2], qarr[i - 2])),
                  CMul(c0[i], Tarr[i])),
             CMul(c2[i - 2], Tarr[i - 2])))

\* one iteration of "for l in range(2, T.shape[0])"
IntegrateStep(Tarr, d1, d2, c0, c2, qarr, i) ==
    [qarr EXCEPT ![i] = IntegrateStepValue(Tarr, d1, d2, c0, c2, qarr, i)]

Len0(arr) == Cardinality(DOMAIN arr)

RECURSIVE IntegrateLoop(_, _, _, _, _, _, _)
IntegrateLoop(Tarr, d1, d2, c0, c2, qarr, i) ==
    IF i >= Len0(Tarr) THEN qarr
    ELSE IntegrateLoop(Tarr, d1, d2, c0, c2,
                       IntegrateStep(Tarr, d1, d2, c0, c2, qarr, i), i + 1)

\* integrate(T, d_1, d_2, c_0, c_2)
integrate(Tarr, d1, d2, c0, c2) ==
    IntegrateLoop(Tarr, d1, d2, c0, c2, ZerosLike(Tarr), 2)

(***************************************************************************)
(* Masks and derived quantities.                                           *)
(***************************************************************************)
\* q.where(cond): keeps q where cond, fills complex NaN elsewhere
Where(cond, c) == IF cond THEN c ELSE CNaN

\* q = q.where(xr.ufuncs.logical_not(T == 0))
MaskUndefined(qv, Tv) == Where(~CEqZero(Tv), qv)

\* the band edge kept: abs(lat) >= 4.0
MaskEquator_EdgeKept(qv, latV) == Where(Abs(latV) >= EquatorBand, qv)
\* q = q.where(abs(q.coords["lat"]) > 4.0)
MaskEquator(qv, latV) == Where(Abs(latV) > EquatorBand, qv)

MaskedVelocity(qarr, Tarr, latV) ==
    [k \in DOMAIN qarr |-> MaskEquator(MaskUndefined(qarr[k], Tarr[k]), latV)]

\* slab_u = xr.ufuncs.real(q).astype("float32")
SlabU(qm) == [k \in DOMAIN qm |-> AsFloat32(qm[k].re)]
\* slab_v = xr.ufuncs.imag(q).astype("float32")
SlabV(qm) == [k \in DOMAIN qm |-> AsFloat32(qm[k].im)]
\* slab_umag = (slab_u**2 + slab_v**2)**0.5
SlabUmag(u, v) ==
    [k \in DOMAIN u |-> RSqrt(RAdd(RMul(u[k], u[k]), RMul(v[k], v[k])))]

\* filter_windstress of one grid point (after the timestep check), as a function
FilterPoint(tauxS, tauyS, latV, dtV) ==
    LET n == Len0(tauxS)
        f == Coriolis(latV)
        Tarr == WindStress(tauxS, tauyS)
        c0 == Coef_c_0(f)
        qarr == integrate(Tarr, Broadcast(Coef_d_1(f, dtV), n),
                          Broadcast(Coef_d_2(dtV), n), Broadcast(c0, n),
                          Broadcast(Coef_c_2(c0), n))
        qm == MaskedVelocity(qarr, Tarr, latV)
    IN  [u |-> SlabU(qm), v |-> SlabV(qm), umag |-> SlabUmag(SlabU(qm), SlabV(qm))]

(***************************************************************************)
(* State of one call of filter_windstress on one grid point.               *)
(***************************************************************************)
VARIABLES
    pc,         \* "start", "integrate", "done": position in filter_windstress
    lat,        \* latitude of the grid point, whole degrees
    taux, tauy, \* the wind-stress components, NaN where missing
    dt,         \* the validated timestep
    T,          \* the masked complex wind stress
    c_0, c_2, d_1, d_2, \* the coefficients, broadcast along time
    q,          \* the array integrate fills
    l,          \* the loop variable of integrate
    slab_u, slab_v, slab_umag   \* the returned arrays

pointVars == <<pc, lat, taux, tauy, dt, T, c_0, c_2, d_1, d_2, q, l,
               slab_u, slab_v, slab_umag>>

(***************************************************************************)
(* State of the chunked computation of the grid (to_zarr).                 *)
(***************************************************************************)
VARIABLES
    grid,       \* per grid point: [lat, taux, tauy]
    cuts,       \* chunk boundaries: a chunk ends after point c for c in cuts
    task,       \* per chunk (by its first point): "pending", "computed", "written"
    blocks,     \* per chunk: the block a finished task holds in memory
    store       \* per grid point: <<>> or <<the values written>>

gridVars == <<grid, cuts, task, blocks, store>>

(***************************************************************************)
(* State of the timestep check of filter_windstress.                       *)
(***************************************************************************)
VARIABLES
    timeAxis,   \* taux.time, in ticks of 1/TicksPerSecond s
    stage,      \* "start", "failed", "checked", "coefficients", "computed", "stored"
    dtSec,      \* dt in seconds, a fraction [num, den]
    effects     \* what has been computed or written so far

timeVars == <<timeAxis, stage, dtSec, effects>>

(***************************************************************************)
(* State of the notebook's pipeline along time: upsample, filter,          *)
(* sub-sample, store.                                                      *)
(***************************************************************************)
VARIABLES
    dsTime,     \* ds.time, the original time axis, in half hours
    upTime,     \* taux.time after upsample_data
    slabTime,   \* the time steps of ds_slab: [time, from]
    run         \* "loaded", "upsampled", "filtered", "failed", "subsampled", "stored"

pipeVars == <<dsTime, upTime, slabTime, run>>

vars == <<pointVars, gridVars, timeVars, pipeVars>>

Empty == <<>>

GridIdle ==
    grid = Empty /\ cuts = {} /\ task = Empty /\ blocks = Empty /\ store = Empty
TimeIdle ==
    timeAxis = Empty /\ stage = "idle" /\ dtSec = Empty /\ effects = {}
PipeIdle ==
    dsTime = Empty /\ upTime = Empty /\ slabTime = Empty /\ run = "idle"
PointIdle ==
    /\ pc = "idle" /\ lat = 0 /\ taux = Empty /\ tauy = Empty /\ dt = 0
    /\ T = Empty /\ c_0 = Empty /\ c_2 = Empty /\ d_1 = Empty /\ d_2 = Empty
    /\ q = Empty /\ l = 0
    /\ slab_u = Empty /\ slab_v = Empty /\ slab_umag = Empty

\* grid latitudes of the model: the equator, both band edges, a point just
\* outside the band in the southern hemisphere, a northern mid-latitude
LatSet == {-5, -4, 0, 4, 30}

\* (taux, tauy) samples: taux missing, tauy missing, present zero, present values
Samples ==
    {<<NaN, Real(0)>>, <<Real(1), NaN>>, <<Real(0), Real(0)>>,
     <<Real(1), Real(0)>>, <<Real(0), Real(1)>>}

\* the timestep check rejects a time axis of fewer than two steps
MinLen == 2

SeriesOfLen(n) == [0..(n - 1) -> Samples]

Init ==
    /\ pc = "start"
    /\ lat \in LatSet
    /\ dt = Timestep
    /\ \E n \in MinLen..MaxLen : \E s \in SeriesOfLen(n) :
          /\ taux = [k \in 0..(n - 1) |-> s[k][1]]
          /\ tauy = [k \in 0..(n - 1) |-> s[k][2]]
    /\ T = Empty /\ c_0 = Empty /\ c_2 = Empty /\ d_1 = Empty /\ d_2 = Empty
    /\ q = Empty /\ l = 0
    /\ slab_u = Empty /\ slab_v = Empty /\ slab_umag = Empty
    /\ GridIdle /\ TimeIdle /\ PipeIdle

\* filter_windstress up to the first loop test of integrate
Setup ==
    /\ pc = "start"
    /\ LET n == Len0(taux)
           f == Coriolis(lat)
           c0 == Coef_c_0(f)
       IN  /\ T' = WindStress(taux, tauy)
           /\ c_0' = Broadcast(c0, n)
           /\ c_2' = Broadcast(Coef_c_2(c0), n)
           /\ d_1' = Broadcast(Coef_d_1(f, dt), n)
           /\ d_2' = Broadcast(Coef_d_2(dt), n)
    /\ q' = ZerosLike(T')
    /\ l' = 2
    /\ pc' = "integrate"
    /\ UNCHANGED <<lat, taux, tauy, dt, slab_u, slab_v, slab_umag>>
    /\ UNCHANGED <<gridVars, timeVars, pipeVars>>

\* one iteration of the loop of integrate
Step ==
    /\ pc = "integrate"
    /\ l < Len0(T)
    /\ q' = IntegrateStep(T, d_1, d_2, c_0, c_2, q, l)
    /\ l' = l + 1
    /\ UNCHANGED <<pc, lat, taux, tauy, dt, T, c_0, c_2, d_1, d_2,
                   slab_u, slab_v, slab_umag>>
    /\ UNCHANGED <<gridVars, timeVars, pipeVars>>

\* the loop ends; the two masks, u, v and the speed; return
Finish ==
    /\ pc = "integrate"
    /\ l >= Len0(T)
    /\ LET qm == MaskedVelocity(q, T, lat)
       IN  /\ slab_u' = SlabU(qm)
           /\ slab_v' = SlabV(qm)
           /\ slab_umag' = SlabUmag(SlabU(qm), SlabV(qm))
    /\ pc' = "done"
    /\ UNCHANGED <<lat, taux, tauy, dt, T, c_0, c_2, d_1, d_2, q, l>>
    /\ UNCHANGED <<gridVars, timeVars, pipeVars>>

Next == Setup \/ Step \/ Finish

Spec == Init /\ [][Next]_vars

(***************************************************************************)
(* Properties of filter_windstress on one grid point (Spec).               *)
(***************************************************************************)
Started == pc \in {"integrate", "done"}
Done == pc = "done"
Missing(k) == IsNaN(taux[k]) \/ IsNaN(tauy[k])
Invalid(k) == IsNaN(slab_u[k])
ConstantUnitStress ==
    \A k \in DOMAIN taux : taux[k] = Real(1) /\ tauy[k] = Real(0)

RECURSIVE RefQ(_, _, _, _, _, _)
\* q_l = d1 q_{l-1} + d2 q_{l-2} + c0 T_l + c2 T_{l-2}, q_0 = q_1 = 0, with one
\* coefficient set for all times
RefQ(c0, c2, d1, d2, Tarr, k) ==
    IF k < 2 THEN CZero
    ELSE CAdd(CAdd(CAdd(CMul(d1, RefQ(c0, c2, d1, d2, Tarr, k - 1)),
                        CMul(d2, RefQ(c0, c2, d1, d2, Tarr, k - 2))),
                   CMul(c0, Tarr[k])),
              CMul(c2, Tarr[k - 2]))

PointRefQ(k) ==
    LET f == Coriolis(lat)
        c0 == CInt(0 - epsilon, f)
    IN  RefQ(c0, CNeg(c0), CInt(0, 0 - 2 * f * dt), CInt(1 - 2 * epsilon * dt, 0),
             T, k)

\* C1: at every point of the loop of integrate, the steps below l hold the
\* value of the reference recursion with the point's single coefficient set
\* (c2 = -c0), the steps from l on are still untouched, and l only moves
\* through 2..n: the steps are taken in increasing l.
C1_IntegrateMatchesReference ==
    Started =>
        /\ l \in 2..Len0(T)
        /\ \A k \in DOMAIN q :
              q[k] = IF k < l THEN PointRefQ(k) ELSE CZero

C1_Witness ==
    /\ Done /\ lat = 30 /\ Len0(q) >= 4
    /\ q[2] # CZero /\ q[3] # CZero /\ q[3] # q[2]

\* C8: the first two outputs of the recursion are zero whatever T_0 and T_1.
C8_FirstTwoZero ==
    Started => q[0] = CZero /\ q[1] = CZero

C8_Witness ==
    /\ Done /\ ~CEqZero(T[0]) /\ ~CEqZero(T[1]) /\ T[0] # T[1]
    /\ Len0(q) >= 3 /\ q[2] # CZero

\* C3: at a grid point with |lat| <= 4 every returned time step is invalid,
\* whatever the input, and u, v and the speed are invalid at the same steps.
C3_EquatorialBandInvalid ==
    Done =>
        /\ Abs(lat) <= 4 => \A k \in DOMAIN slab_u : Invalid(k)
        /\ \A k \in DOMAIN slab_u :
              /\ IsNaN(slab_v[k]) <=> Invalid(k)
              /\ IsNaN(slab_umag[k]) <=> Invalid(k)

C3_Witness ==
    /\ Done /\ lat = -4 /\ Len0(q) >= 3
    /\ \A k \in DOMAIN taux : ~Missing(k) /\ ~CEqZero(T[k])
    /\ q[2] # CZero
    /\ \A k \in DOMAIN slab_u : Invalid(k)

\* C2 (as claimed): the returned value at time l is invalid if and only if
\* the sample at l was missing or |lat| <= 4; a present sample outside the
\* band always gives a valid value.
C2_InvalidIffMissingOrEquatorial ==
    Done => \A k \in DOMAIN slab_u : Invalid(k) <=> (Missing(k) \/ Abs(lat) <= 4)

\* C9 (as claimed): with every sample present and zero, the returned velocity
\* is zero at every time step (outside the equatorial band).
C9_ZeroForcingZeroVelocity ==
    (Done /\ Abs(lat) > 4
          /\ \A k \in DOMAIN taux : taux[k] = Real(0) /\ tauy[k] = Real(0))
        => \A k \in DOMAIN slab_u : slab_u[k] = Real(0) /\ slab_v[k] = Real(0)

\* the series with the sample at k replaced by a present zero
ZeroAt(series, k) == [series EXCEPT ![k] = Real(0)]
\* C4: where a sample is missing, the output at that time is invalid and the
\* output at every other time is the output of the same series with that
\* sample replaced by a zero; whether the output at a time m is invalid is
\* read off the sample at m and the latitude alone.
C4_GapIsZeroForcing ==
    Done =>
        /\ \A k \in DOMAIN taux : Missing(k) =>
              /\ Invalid(k) /\ IsNaN(slab_v[k]) /\ IsNaN(slab_umag[k])
              /\ LET ref == FilterPoint(ZeroAt(taux, k), ZeroAt(tauy, k), lat, dt)
                 IN  \A m \in DOMAIN taux \ {k} :
                        /\ slab_u[m] = ref.u[m]
                        /\ slab_v[m] = ref.v[m]
                        /\ slab_umag[m] = ref.umag[m]
        /\ \A m \in DOMAIN taux :
              Invalid(m) <=>
                  \/ Missing(m)
                  \/ taux[m] = Real(0) /\ tauy[m] = Real(0)
                  \/ Abs(lat) <= 4

C4_Witness ==
    /\ Done /\ lat = 30 /\ Len0(q) >= 4
    /\ Missing(1) /\ ~Missing(0) /\ ~Missing(2) /\ ~Missing(3)
    /\ Invalid(1) /\ ~Invalid(2) /\ ~Invalid(3)
    /\ slab_u[3] # Real(0)

\* C7 (as claimed): under constant stress 1 + 0i at 30N the recursion starts
\* at q_0 = q_1 = 0 and then moves towards the non-zero steady state
\* T / ((epsilon + i f) rho H): some later velocity is not zero.
C7_ApproachesNonZeroSteadyState ==
    (Done /\ lat = 30 /\ ConstantUnitStress /\ Len0(q) >= 3)
        => /\ q[0] = CZero /\ q[1] = CZero
           /\ \E k \in DOMAIN q : q[k] # CZero

\* C7 (amended): under constant stress 1 + 0i at 30N the velocity is zero at
\* every step, and is returned as a valid zero: c0 T_l + c2 T_{l-2} cancels.
C7_ConstantStressStaysAtRest ==
    (Started /\ lat = 30 /\ ConstantUnitStress)
        => /\ \A k \in DOMAIN q : q[k] = CZero
           /\ Done => \A k \in DOMAIN slab_u :
                         /\ slab_u[k] = Real(0) /\ slab_v[k] = Real(0)
                         /\ slab_umag[k] = Real(0)

C7_Witness ==
    /\ Done /\ lat = 30 /\ ConstantUnitStress /\ Len0(q) >= 4
    /\ Coriolis(lat) > 0
    /\ CMul(c_0[3], T[3]) # CZero

(***************************************************************************)
(* The grid, cut into spatial chunks; every chunk is one task that         *)
(* computes its block and writes it to the store, in any order.            *)
(***************************************************************************)
\* the inputs of the grid points of the model: two latitudes, two series
GridLats == {0, 30}
GridSeries ==
    {<<<<Real(1), Real(0)>>, <<NaN, Real(0)>>, <<Real(0), Real(1)>>>>,
     <<<<Real(0), Real(1)>>, <<Real(0), Real(0)>>, <<Real(1), Real(0)>>>>}
GridInputs ==
    {[lat |-> la,
      taux |-> [k \in 0..(Len(sr) - 1) |-> sr[k + 1][1]],
      tauy |-> [k \in 0..(Len(sr) - 1) |-> sr[k + 1][2]]] :
        la \in GridLats, sr \in GridSeries}
\* the timestep of the grid
GridDt == Timestep

Min(S) == CHOOSE x \in S : \A y \in S : x <= y

\* the first points of the chunks
ChunkStarts(cutSet) == {1} \cup {c + 1 : c \in cutSet}
\* the last point of the chunk that starts at s
ChunkEnd(cutSet, np, s) == Min({c \in cutSet : c >= s} \cup {np})

\* a chunk read from the grid origin instead of its own offset
ReadBlock_FromOrigin(g, s, e) == [i \in 1..(e - s + 1) |-> g[i]]
\* the block of the input arrays a chunk's task is given
ReadBlock(g, s, e) == [i \in 1..(e - s + 1) |-> g[s + i - 1]]

\* apply_ufunc(integrate, ..., vectorize=True, dask='parallelized') and the
\* elementwise masks on one block: filter_windstress point by point
ComputeBlock(block, dtV) ==
    [i \in DOMAIN block |->
        FilterPoint(block[i].taux, block[i].tauy, block[i].lat, dtV)]

\* the region of the store that the chunk starting at s covers
WriteBlock(st, s, res) ==
    [p \in DOMAIN st |->
        IF p \in s..(s + Len(res) - 1) THEN <<res[p - s + 1]>> ELSE st[p]]

InitGrid ==
    /\ \E np \in 1..MaxPoints :
          /\ grid \in [1..np -> GridInputs]
          /\ cuts \in SUBSET (1..(np - 1))
          /\ store = [p \in 1..np |-> <<>>]
    /\ task = [s \in ChunkStarts(cuts) |-> "pending"]
    /\ blocks = [s \in ChunkStarts(cuts) |-> <<>>]
    /\ PointIdle /\ TimeIdle /\ PipeIdle

\* a worker runs the task of one chunk
ComputeChunk(s) ==
    /\ task[s] = "pending"
    /\ blocks' = [blocks EXCEPT ![s] =
          ComputeBlock(ReadBlock(grid, s, ChunkEnd(cuts, Len(grid), s)), GridDt)]
    /\ task' = [task EXCEPT ![s] = "computed"]
    /\ UNCHANGED <<grid, cuts, store>>
    /\ UNCHANGED <<pointVars, timeVars, pipeVars>>

\* the finished block is written to its region of the store and dropped
WriteChunk(s) ==
    /\ task[s] = "computed"
    /\ store' = WriteBlock(store, s, blocks[s])
    /\ blocks' = [blocks EXCEPT ![s] = <<>>]
    /\ task' = [task EXCEPT ![s] = "written"]
    /\ UNCHANGED <<grid, cuts>>
    /\ UNCHANGED <<pointVars, timeVars, pipeVars>>

NextGrid ==
    \/ \E s \in DOMAIN task : ComputeChunk(s)
    \/ \E s \in DOMAIN task : WriteChunk(s)

SpecGrid == InitGrid /\ [][NextGrid]_vars

\* the output of the computation of the whole grid as one chunk
SingleChunkOutput == ComputeBlock(ReadBlock(grid, 1, Len(grid)), GridDt)

AllWritten == \A s \in DOMAIN task : task[s] = "written"

TicksPerSecond == 10000
\* 1 / 1e-4: the tolerance of the check is one second over this
ToleranceInverse == 10000

RECURSIVE SumSeq(_)
SumSeq(sq) == IF sq = <<>> THEN 0 ELSE Head(sq) + SumSeq(Tail(sq))

\* taux.time.diff("time")
Diff(axis) == [i \in 1..(Len(axis) - 1) |-> axis[i + 1] - axis[i]]

SquaresOf(sq) == [i \in DOMAIN sq |-> sq[i] * sq[i]]

\* n^2 times the population variance of the differences
VarianceTimesN2(d) == Len(d) * SumSeq(SquaresOf(d)) - SumSeq(d) * SumSeq(d)

\* the check with <= in place of <
UniformTimestep_OrEqual(axis) ==
    LET d == Diff(axis)
        tol == TicksPerSecond \div ToleranceInverse
    IN  /\ Len(d) > 0
        /\ VarianceTimesN2(d) <= Len(d) * Len(d) * tol * tol

\* assert std(diff) / 1e9 < 1e-4; the std of no differences is NaN, and
\* NaN < 1e-4 is false
UniformTimestep(axis) ==
    LET d == Diff(axis)
        tol == TicksPerSecond \div ToleranceInverse
    IN  /\ Len(d) > 0
        /\ VarianceTimesN2(d) < Len(d) * Len(d) * tol * tol

\* dt = mean(diff) / 1e9, in seconds, as a fraction
MeanTimestep(axis) ==
    LET d == Diff(axis)
    IN  [num |-> SumSeq(d), den |-> Len(d) * TicksPerSecond]

RECURSIVE AxesFrom(_, _)
\* the time axes of k steps that start with the steps of axis
AxesFrom(axis, k) ==
    IF k = 0 THEN {axis}
    ELSE UNION {AxesFrom(Append(axis, axis[Len(axis)] + g), k - 1) : g \in 1..MaxDiff}

InitTime ==
    /\ \E n \in 1..MaxTimes : timeAxis \in AxesFrom(<<0>>, n - 1)
    /\ stage = "start"
    /\ dtSec = Empty
    /\ effects = {}
    /\ PointIdle /\ GridIdle /\ PipeIdle

\* the assert fails: filter_windstress raises
CheckFails ==
    /\ stage = "start"
    /\ ~UniformTimestep(timeAxis)
    /\ stage' = "failed"
    /\ UNCHANGED <<timeAxis, dtSec, effects>>
    /\ UNCHANGED <<pointVars, gridVars, pipeVars>>

\* the assert passes and dt is taken
CheckPasses ==
    /\ stage = "start"
    /\ UniformTimestep(timeAxis)
    /\ dtSec' = MeanTimestep(timeAxis)
    /\ stage' = "checked"
    /\ UNCHANGED <<timeAxis, effects>>
    /\ UNCHANGED <<pointVars, gridVars, pipeVars>>

\* f, T and the coefficients are set up (lazily) from dt
DeriveCoefficients ==
    /\ stage = "checked"
    /\ effects' = effects \cup {"coefficients"}
    /\ stage' = "coefficients"
    /\ UNCHANGED <<timeAxis, dtSec>>
    /\ UNCHANGED <<pointVars, gridVars, pipeVars>>

\* to_zarr triggers the chunks
ComputeChunks ==
    /\ stage = "coefficients"
    /\ effects' = effects \cup {"chunks"}
    /\ stage' = "computed"
    /\ UNCHANGED <<timeAxis, dtSec>>
    /\ UNCHANGED <<pointVars, gridVars, pipeVars>>

\* and writes them
WriteStore ==
    /\ stage = "computed"
    /\ effects' = effects \cup {"store"}
    /\ stage' = "stored"
    /\ UNCHANGED <<timeAxis, dtSec>>
    /\ UNCHANGED <<pointVars, gridVars, pipeVars>>

NextTime ==
    CheckFails \/ CheckPasses \/ DeriveCoefficients \/ ComputeChunks \/ WriteStore

SpecTime == InitTime /\ [][NextTime]_vars

Checked == stage \notin {"start", "idle"}
AxisDiffs == Diff(timeAxis)
\* std / mean > 1e-4, as n^2 var * 1e8 > (sum of the differences)^2
RelativeSpreadExceeds ==
    /\ Len(AxisDiffs) > 0
    /\ VarianceTimesN2(AxisDiffs) >
          (SumSeq(AxisDiffs) * SumSeq(AxisDiffs))
              \div (ToleranceInverse * ToleranceInverse)
\* std >= 1e-4 s, that is one tick
AbsoluteSpreadAtLeastTolerance ==
    /\ Len(AxisDiffs) > 0
    /\ VarianceTimesN2(AxisDiffs) >= Len(AxisDiffs) * Len(AxisDiffs)

time_delta == 2

\* len(np.arange(a, b, step)) = ceil((b - a) / step)
ArangeLen(a, b, step) == IF b <= a THEN 0 ELSE (b - a + step - 1) \div step
\* np.arange(a, b, step): a, a + step, ... below b
Arange(a, b, step) == [i \in 1..ArangeLen(a, b, step) |-> a + (i - 1) * step]

\* upsample_data: the new time axis of the interpolated data
UpsampledAxis(axis) == Arange(axis[1], axis[Len(axis)], time_delta)

Max(S) == CHOOSE x \in S : \A y \in S : x >= y

\* index.get_indexer([t], method="nearest") of an increasing index: the last
\* step at or before t unless the first step at or after t is as near
Nearest(axis, t) ==
    LET left == {i \in DOMAIN axis : axis[i] <= t}
        right == {i \in DOMAIN axis : axis[i] >= t}
    IN  IF right = {} THEN Max(left)
        ELSE IF left = {} THEN Min(right)
        ELSE IF t - axis[Max(left)] < axis[Min(right)] - t THEN Max(left)
        ELSE Min(right)

\* ds_slab.sel(time=ds.time, method="nearest"): per original time the step of
\* the filter output that is taken, with the time coordinate it carries
Subsample(axis, wanted) ==
    [k \in DOMAIN wanted |->
        [time |-> axis[Nearest(axis, wanted[k])], from |-> Nearest(axis, wanted[k])]]

InitPipe ==
    /\ \E n \in 1..MaxOrig :
          dsTime \in {ax \in [1..n -> 0..(MaxGap * (n - 1))] :
                         /\ ax[1] = 0
                         /\ \A i \in 1..(n - 1) :
                               ax[i + 1] - ax[i] \in 1..MaxGap}
    /\ upTime = Empty
    /\ slabTime = Empty
    /\ run = "loaded"
    /\ PointIdle /\ GridIdle /\ TimeIdle

\* taux = upsample_data(ds["taux"]); tauy = upsample_data(ds["tauy"])
Upsample ==
    /\ run = "loaded"
    /\ upTime' = UpsampledAxis(dsTime)
    /\ run' = "upsampled"
    /\ UNCHANGED <<dsTime, slabTime>>
    /\ UNCHANGED <<pointVars, gridVars, timeVars>>

\* filter_windstress(taux, tauy, H=slab_model_H): one output step per step
\* of the upsampled axis, unless the timestep check fails.  The differences
\* of an np.arange axis are all equal, so their std is 0 in any unit and the
\* check fails only for an axis of fewer than two steps.
Filter ==
    /\ run = "upsampled"
    /\ IF UniformTimestep(upTime)
       THEN /\ slabTime' = [j \in DOMAIN upTime |-> [time |-> upTime[j], from |-> j]]
            /\ run' = "filtered"
       ELSE /\ slabTime' = slabTime
            /\ run' = "failed"
    /\ UNCHANGED <<dsTime, upTime>>
    /\ UNCHANGED <<pointVars, gridVars, timeVars>>

\* ds_slab = ds_slab.sel(time=ds.time, method="nearest")
SubsampleStep ==
    /\ run = "filtered"
    /\ slabTime' = Subsample(upTime, dsTime)
    /\ run' = "subsampled"
    /\ UNCHANGED <<dsTime, upTime>>
    /\ UNCHANGED <<pointVars, gridVars, timeVars>>

\* ds_slab.to_zarr(slab_zarr_store, mode="w")
ToZarr ==
    /\ run = "subsampled"
    /\ run' = "stored"
    /\ UNCHANGED <<dsTime, upTime, slabTime>>
    /\ UNCHANGED <<pointVars, gridVars, timeVars>>

NextPipe == Upsample \/ Filter \/ SubsampleStep \/ ToZarr

SpecPipe == InitPipe /\ [][NextPipe]_vars

\* C10 (as claimed): the stored output has the time steps of the original
\* axis, each holding the filter output computed at that very time.
C10_StoredOnOriginalAxis ==
    run = "stored" =>
        /\ Len(slabTime) = Len(dsTime)
        /\ \A k \in DOMAIN dsTime :
              /\ slabTime[k].time = dsTime[k]
              /\ upTime[slabTime[k].from] = dsTime[k]

=============================================================================
